---- MODULE Spec2Model ----
(***************************************************************************)
(* Model of src/fetch.py: the "last N hours" news collector.               *)
(*                                                                         *)
(* Strings are sequences of one-character strings.  A URL is a sequence    *)
(* of components (scheme, host, section, leaf); <<>> is the empty string.  *)
(* An aware datetime is a record [known, wall, off]: wall clock reading    *)
(* and UTC offset, both in ticks; None is the record with known = FALSE.   *)
(* A tick is the resolution of a datetime; TicksPerSec ticks make one      *)
(* second.                                                                 *)
(***************************************************************************)
EXTENDS Integers, Sequences, FiniteSets, TLC

\* ---------------------------------------------------------------- bounds
TicksPerSec == 2
\* WINDOW_HOURS scaled down: the length of the window in seconds
WindowSecs == 1
\* the reading of the UTC clock when the module is loaded, in ticks
NowTick == 20
\* entries in one feed document, anchors on one listing page
MaxEntries == 2
MaxAnchors == 3
\* main passes limit=20; the model passes a smaller one so that it is reached
Limit == 2

\* program constants
SummaryCut == 400
BodyCut == 320

\* ---------------------------------------------------------------- text
Min(a, b) == IF a <= b THEN a ELSE b

\* s[:n]
Prefix(s, n) == SubSeq(s, 1, Min(Len(s), n))

\* characters str.strip() removes: space, U+3000 (written "_"), U+00A0 (written "~")
IsSpace(c) == c \in {" ", "_", "~"}

RECURSIVE LStrip(_)
LStrip(s) == IF s # <<>> /\ IsSpace(Head(s)) THEN LStrip(Tail(s)) ELSE s

RECURSIVE RStrip(_)
RStrip(s) ==
    IF s # <<>> /\ IsSpace(s[Len(s)]) THEN RStrip(SubSeq(s, 1, Len(s) - 1)) ELSE s

\* clean_text: (s or "").strip().replace(U+3000, " ").replace(U+00A0, " ")
clean_text(s) ==
    LET t == LStrip(RStrip(s))
    IN  [i \in 1..Len(t) |-> IF t[i] \in {"_", "~"} THEN " " ELSE t[i]]

\* re.I: case folding of the characters the model uses
Fold(c) == IF c = "R" THEN "r" ELSE IF c = "A" THEN "a" ELSE c

\* p.search(text) for a literal pattern p compiled with re.I
Search(p, text) ==
    \E i \in 0..(Len(text) - Len(p)) :
        \A j \in 1..Len(p) : Fold(text[i + j]) = Fold(p[j])

\* any(p.search(text) for p in pats)
AnySearch(pats, text) == \E k \in 1..Len(pats) : Search(pats[k], text)

\* sha(s): sha1 hex digest, one digest per string
sha(s) == <<"sha1", s>>

\* ---------------------------------------------------------------- URLs
\* <<"http:", host, section, leaf>> is an absolute URL, <<section, leaf>> a
\* root-relative reference, <<"mailto:", x>> a URL no HTTP request can reach,
\* <<"http:", "[">> an href urlsplit rejects (ValueError: Invalid IPv6 URL)
IsScheme(c) == c \in {"http:", "mailto:"}

IsAbsolute(u) == Len(u) = 4 /\ u[1] = "http:"

Malformed(u) == Len(u) = 2 /\ u[1] = "http:" /\ u[2] = "["

\* requests.compat.urljoin(base, href), for an href that is not malformed
urljoin(base, href) ==
    IF href = <<>> THEN base
    ELSE IF IsScheme(href[1]) THEN href
    ELSE <<base[1], base[2]>> \o href

\* ---------------------------------------------------------------- datetimes
None == [known |-> FALSE, wall |-> 0, off |-> 0]

Dt(w, o) == [known |-> TRUE, wall |-> w, off |-> o]

\* the UTC instant of an aware datetime
Instant(d) == d.wall - d.off

\* d.astimezone(tz)
astimezone(d, tz) == Dt(Instant(d) + tz, tz)

\* a <= b for aware datetimes: with the same tzinfo the wall clocks are
\* compared, otherwise the UTC instants
DtLE(a, b) ==
    IF a.off = b.off THEN a.wall <= b.wall ELSE Instant(a) <= Instant(b)

\* datetime(*st[:6], tzinfo=timezone.utc): a struct_time has whole seconds
FromStruct(sec) == Dt(sec * TicksPerSec, 0)

\* isoformat() of a UTC datetime, as character codes: the seconds in a
\* fixed-width field, the fraction only when it is not zero, then "+00:00"
Digit(n) == 48 + n

Iso(d) ==
    LET t == Instant(d)
        s == t \div TicksPerSec
        f == t % TicksPerSec
    IN  <<Digit(s \div 10), Digit(s % 10)>>
        \o (IF f = 0 THEN <<>> ELSE <<46, Digit(f)>>)
        \o <<43, 48, 48, 58, 48, 48>>

\* a < b for str: the first differing character decides, a proper prefix is less
RECURSIVE StrLess(_, _)
StrLess(a, b) ==
    IF b = <<>> THEN FALSE
    ELSE IF a = <<>> THEN TRUE
    ELSE IF Head(a) # Head(b) THEN Head(a) < Head(b)
    ELSE StrLess(Tail(a), Tail(b))

\* ---------------------------------------------------------------- state
VARIABLES
    LOCAL_TZ,          \* the UTC offset of the configured zone, in ticks
    WIN_START_LOCAL,   \* window_bounds(), evaluated once when the module loads
    WIN_END_LOCAL,
    SKIP_HTML,
    EXTRACT_BODY,      \* EXTRACT_BODY and trafilatura importable
    feeds,             \* feeds.yml
    include,           \* keywords.yml, compiled
    exclude,
    pc,                \* where main is
    fi,                \* index of the feed main is at
    left,              \* entries or anchors the running fetcher has still to iterate
    out,               \* fetch_rss: out
    hseen,             \* fetch_html_window_items: seen
    hitems,            \* fetch_html_window_items: items
    candidates,        \* main: candidates
    ci,                \* index of the candidate the keyword loop is at
    items,             \* main: items
    seen,              \* main: seen
    visited,           \* history: detail pages requested by the running listing fetch
    failed,            \* history: names of the sources whose fetch failed
    encounter,         \* history: the items in the order main appended them
    ev,                \* history: what the last step did
    probe,             \* window probe: the argument of in_window
    verdict            \* window probe: what in_window returned

vars ==
    <<LOCAL_TZ, WIN_START_LOCAL, WIN_END_LOCAL, SKIP_HTML, EXTRACT_BODY, feeds,
      include, exclude, pc, fi, left, out, hseen, hitems, candidates, ci, items,
      seen, visited, failed, encounter, ev, probe, verdict>>

config == <<LOCAL_TZ, WIN_START_LOCAL, WIN_END_LOCAL, SKIP_HTML, EXTRACT_BODY,
            feeds, include, exclude>>

\* ---------------------------------------------------------------- window
WindowTicks == WindowSecs * TicksPerSec

\* window_bounds(): end_local = now in LOCAL_TZ, start_local = end_local - WINDOW_HOURS
window_bounds(tz) ==
    LET end_local == astimezone(Dt(NowTick, 0), tz)
        start_local == Dt(end_local.wall - WindowTicks, end_local.off)
    IN  <<start_local, end_local>>

\* in_window with the end of the window left out
in_window_open(dt_aware) ==
    IF ~dt_aware.known THEN FALSE
    ELSE LET dt_local == astimezone(dt_aware, LOCAL_TZ)
         IN  DtLE(WIN_START_LOCAL, dt_local) /\ ~DtLE(WIN_END_LOCAL, dt_local)

\* in_window taking a missing date for a current one
in_window_unknown(dt_aware) ==
    IF ~dt_aware.known THEN TRUE
    ELSE LET dt_local == astimezone(dt_aware, LOCAL_TZ)
         IN  DtLE(WIN_START_LOCAL, dt_local) /\ DtLE(dt_local, WIN_END_LOCAL)

in_window(dt_aware) ==
    IF ~dt_aware.known THEN FALSE
    ELSE LET dt_local == astimezone(dt_aware, LOCAL_TZ)
         IN  DtLE(WIN_START_LOCAL, dt_local) /\ DtLE(dt_local, WIN_END_LOCAL)

\* now_utc() during the run: the clock has moved on since the module loaded
now_utc == Dt(NowTick + 1, 0)

\* ---------------------------------------------------------------- date resolution
\* a timestamp string: absent, unparseable, without a zone, or with one
Absent == [kind |-> "absent", wall |-> 0, off |-> 0]
Garbage == [kind |-> "garbage", wall |-> 0, off |-> 0]
Naive(w) == [kind |-> "naive", wall |-> w, off |-> 0]
Aware(w, o) == [kind |-> "aware", wall |-> w, off |-> o]

\* parse_dt_any: None for nothing or for what dateutil rejects, UTC assumed
\* for a string without a zone, the result in UTC
parse_dt_any(s) ==
    IF s.kind \in {"absent", "garbage"} THEN None
    ELSE astimezone(Dt(s.wall, s.off), 0)

\* extract_published_from_html: vals[k] is the first value the k-th xpath
\* yields (Absent when it yields none); the first one that parses wins
RECURSIVE FirstParsed(_)
FirstParsed(vals) ==
    IF vals = <<>> THEN None
    ELSE IF Head(vals).kind # "absent" /\ parse_dt_any(Head(vals)).known
         THEN parse_dt_any(Head(vals))
         ELSE FirstParsed(Tail(vals))

extract_published_from_html(page) == FirstParsed(page.metas)

\* fetch_rss: the first of published_parsed, updated_parsed, created_parsed
\* that is set (NoStruct: not set), as a UTC datetime
NoStruct == -1

EntryPub(e) ==
    IF e.published_parsed # NoStruct THEN FromStruct(e.published_parsed)
    ELSE IF e.updated_parsed # NoStruct THEN FromStruct(e.updated_parsed)
    ELSE IF e.created_parsed # NoStruct THEN FromStruct(e.created_parsed)
    ELSE None

\* ---------------------------------------------------------------- inputs
\* the UTC offset of LOCAL_TZ, in ticks, and the offsets the window probe tries
LocalOffset == 3 * TicksPerSec

TzOffsets == {0 - TicksPerSec, 0, LocalOffset}

WinStartTick == NowTick - WindowTicks

EndSec == NowTick \div TicksPerSec

\* struct_time values of feed entries, in whole seconds: before the window,
\* its first and its last second, and after it
RssSecs == {EndSec - WindowSecs - 1, EndSec - WindowSecs, EndSec, EndSec + 1}

\* instants of article pages: just before the window, its end, just after it
HtmlTicks == {WinStartTick - 1, NowTick, NowTick + 1}

U1 == <<"http:", "h", "/news", "/1">>

FeedA ==
    [name |-> "A", url |-> <<"http:", "a", "/feed", "/rss">>, type |-> "rss",
     link_pattern |-> <<>>, tags |-> {"robotics"}]

FeedB ==
    [name |-> "B", url |-> <<"http:", "h", "/news", "/index">>, type |-> "html",
     link_pattern |-> <<"/news">>, tags |-> {"ai"}]

FeedLists == {<<FeedA, FeedB>>, <<FeedB, FeedA>>}

\* keywords.yml: the include list and the exclude list
KeywordLists == {<<<<>>, <<>>>>, <<<<>>, <<<<"a">>>>>>, <<<<<<"r">>>>, <<<<"a">>>>>>}

\* SKIP_HTML and EXTRACT_BODY
Switches == {<<FALSE, TRUE>>, <<TRUE, FALSE>>}

Entry(d, t, l, su, de) ==
    [published_parsed |-> d[1], updated_parsed |-> d[2], created_parsed |-> d[3],
     title |-> t, link |-> l, summary |-> su, description |-> de]

\* which of the three date fields an entry has
EntryDates ==
    {<<NoStruct, NoStruct, NoStruct>>, <<NoStruct, EndSec, 0>>,
     <<NoStruct, NoStruct, EndSec>>}
    \cup {<<sec, 0, NoStruct>> : sec \in RssSecs}

\* feed entries: every date case, then texts and links on in-window dates
Entries ==
    {Entry(d, <<"R">>, U1, <<>>, <<>>) : d \in EntryDates}
    \cup {Entry(<<EndSec, NoStruct, NoStruct>>, <<"_", "x">>, <<>>, <<>>, <<"A">>),
          Entry(<<EndSec - WindowSecs, NoStruct, NoStruct>>, <<"x", "~">>, <<>>, <<"a">>, <<>>),
          Entry(<<EndSec, NoStruct, NoStruct>>, <<"R">>, <<"/news", "/1">>, <<"a">>, <<>>)}

Hrefs ==
    {<<>>, <<"/news", "/1">>, U1, <<"/news", "/2">>, <<"/about", "/us">>,
     <<"http:", "[">>, <<"mailto:", "x">>}

\* anchors of a listing page: every href, and one whose text is blank
Anchors ==
    {[href |-> h, text |-> <<"R">>] : h \in Hrefs}
    \cup {[href |-> <<"/news", "/3">>, text |-> <<"_">>]}

Page(m1, m6, b) == [metas |-> <<m1, Absent, Absent, Absent, Absent, m6>>, body |-> b]

\* article pages, by what the first and the last xpath yield and what
\* trafilatura extracts: every date case, then the fallback to the last
\* xpath, and a page of an instant between two whole seconds where the
\* first xpath has priority and there is a body
Pages ==
    {Page(m1, Absent, <<>>) :
        m1 \in {Absent, Garbage}
               \cup {Aware(t + TicksPerSec, TicksPerSec) : t \in HtmlTicks}}
    \cup {Page(Garbage, Naive(NowTick), <<>>),
          Page(Aware(NowTick - 1, 0), Naive(WinStartTick - 1), <<"a", "_">>)}

\* ---------------------------------------------------------------- main
Init ==
    /\ LOCAL_TZ = LocalOffset
    /\ WIN_START_LOCAL = window_bounds(LOCAL_TZ)[1]
    /\ WIN_END_LOCAL = window_bounds(LOCAL_TZ)[2]
    /\ \E sw \in Switches : SKIP_HTML = sw[1] /\ EXTRACT_BODY = sw[2]
    /\ feeds \in FeedLists
    /\ \E kw \in KeywordLists : include = kw[1] /\ exclude = kw[2]
    /\ pc = "loop"
    /\ fi = 1
    /\ left = 0
    /\ out = <<>>
    /\ hseen = {}
    /\ hitems = <<>>
    /\ candidates = <<>>
    /\ ci = 1
    /\ items = <<>>
    /\ seen = {}
    /\ visited = 0
    /\ failed = {}
    /\ encounter = <<>>
    /\ ev = "start"
    /\ probe = None
    /\ verdict = "none"

\* what a step of main never touches
Fixed == UNCHANGED <<config, probe, verdict>>

\* fetch_rss returning what it had collected when the exception came
rss_except_partial(partial) == partial

\* fetch_rss, except Exception: return []

rss_except(partial) == <<>>

\* main, except Exception: candidates = []
main_except(partial) == <<>>

\* fetch_rss up to feedparser.parse: the request fails, the status is an
\* error or the document cannot be parsed (return []), or d.entries is there
RssGet ==
    /\ pc = "loop" /\ fi <= Len(feeds) /\ feeds[fi].type = "rss"
    /\ \/ /\ candidates' = rss_except(<<>>)
          /\ failed' = failed \cup {feeds[fi].name}
          /\ pc' = "filter" /\ ci' = 1 /\ ev' = "rss_error"
          /\ UNCHANGED <<left, out>>
       \/ /\ \E n \in 0..MaxEntries : left' = n
          /\ out' = <<>> /\ pc' = "rss" /\ ev' = "rss_ok"
          /\ UNCHANGED <<candidates, ci, failed>>
    /\ UNCHANGED <<fi, hseen, hitems, items, seen, visited, encounter>>
    /\ Fixed

\* one turn of "for e in d.entries"
RssEntry ==
    /\ pc = "rss" /\ left > 0
    /\ \E e \in Entries :
        LET pub == EntryPub(e)
            title == clean_text(e.title)
            summ == clean_text(Prefix(IF e.summary # <<>> THEN e.summary
                                      ELSE e.description, SummaryCut))
        IN  IF ~in_window(pub)
            THEN out' = out /\ ev' = "rss_drop"
            ELSE /\ out' = Append(out, [title |-> title, link |-> e.link,
                                        summary |-> summ, date |-> Iso(pub)])
                 /\ ev' = "rss_admit"
    /\ left' = left - 1
    /\ UNCHANGED <<pc, fi, hseen, hitems, candidates, ci, items, seen, visited,
                   failed, encounter>>
    /\ Fixed

\* an entry makes the loop body raise (datetime(*st[:6]) on a bad struct_time)
RssRaise ==
    /\ pc = "rss" /\ left > 0
    /\ candidates' = rss_except(out)
    /\ failed' = failed \cup {feeds[fi].name}
    /\ pc' = "filter" /\ ci' = 1 /\ left' = 0 /\ out' = <<>> /\ ev' = "rss_raise"
    /\ UNCHANGED <<fi, hseen, hitems, items, seen, visited, encounter>>
    /\ Fixed

\* return out
RssReturn ==
    /\ pc = "rss" /\ left = 0
    /\ candidates' = out
    /\ pc' = "filter" /\ ci' = 1 /\ out' = <<>> /\ ev' = "rss_return"
    /\ UNCHANGED <<fi, left, hseen, hitems, items, seen, visited, failed, encounter>>
    /\ Fixed

\* what the request for an article page gives: an error (exception, error
\* status), or the page
NoResponse == [ok |-> FALSE, page |-> [metas |-> <<>>, body |-> <<>>]]

Responses == {NoResponse} \cup {[ok |-> TRUE, page |-> p] : p \in Pages}

\* fetch_html_window_items up to the loop: SKIP_HTML (return []), the listing
\* request or its parse fails (return []), or the anchors are there
HtmlGet ==
    /\ pc = "loop" /\ fi <= Len(feeds) /\ feeds[fi].type # "rss"
    /\ \/ /\ SKIP_HTML
          /\ candidates' = <<>> /\ pc' = "filter" /\ ci' = 1 /\ ev' = "html_skip"
          /\ UNCHANGED <<left, hseen, hitems, visited, failed>>
       \/ /\ ~SKIP_HTML
          /\ candidates' = <<>> /\ pc' = "filter" /\ ci' = 1 /\ ev' = "html_error"
          /\ failed' = failed \cup {feeds[fi].name}
          /\ UNCHANGED <<left, hseen, hitems, visited>>
       \/ /\ ~SKIP_HTML
          /\ \E n \in 0..MaxAnchors : left' = n
          /\ hseen' = {} /\ hitems' = <<>> /\ visited' = 0
          /\ pc' = "html" /\ ev' = "html_ok"
          /\ UNCHANGED <<candidates, ci, failed>>
    /\ UNCHANGED <<fi, out, items, seen, encounter>>
    /\ Fixed

\* if len(items) >= limit: break
LimitReached(its, n) == Len(its) >= Limit

\* the listing loop without its seen set
HrefSeenNever(href, hs) == FALSE

\* if href in seen: continue

HrefSeen(href, hs) == href \in hs

\* whether the loop body gets as far as http_get(href) with a URL a request
\* can be sent to
Requested(f, a) ==
    /\ a.href # <<>> /\ ~Malformed(a.href)
    /\ IsAbsolute(urljoin(f.url, a.href))
    /\ f.link_pattern # <<>> => Search(f.link_pattern, urljoin(f.url, a.href))
    /\ ~HrefSeen(urljoin(f.url, a.href), hseen)

\* the item given the href as the page has it
AdmittedLinkRaw(a, href) == a.href

\* "link": href in the item appended: the joined URL

AdmittedLink(a, href) == href

\* the body of "for a in doc.xpath('//a[@href]')" for anchor a and response
\* resp: the new seen and items, the requests issued, whether the loop goes
\* on ("go"), breaks ("break") or an exception leaves the fetcher ("raise")
AnchorStep(f, a, resp) ==
    LET href == urljoin(f.url, a.href)
        same == [seen |-> hseen, items |-> hitems, visited |-> visited]
        req == IF IsAbsolute(href) THEN 1 ELSE 0
        got == [seen |-> hseen \cup {href}, items |-> hitems, visited |-> visited + req]
        pub == extract_published_from_html(resp.page)
        title == IF clean_text(a.text) # <<>> THEN clean_text(a.text) ELSE href
        summary == IF EXTRACT_BODY /\ resp.page.body # <<>>
                   THEN clean_text(Prefix(resp.page.body, BodyCut)) ELSE <<>>
        item == [title |-> title, link |-> AdmittedLink(a, href), summary |-> summary,
                 date |-> Iso(IF pub.known THEN pub ELSE now_utc)]
        more == Append(hitems, item)
    IN  IF a.href = <<>> THEN same @@ [ev |-> "a_empty", ctl |-> "go"]
        ELSE IF Malformed(a.href) THEN same @@ [ev |-> "a_href_error", ctl |-> "raise"]
        ELSE IF f.link_pattern # <<>> /\ ~Search(f.link_pattern, href)
        THEN same @@ [ev |-> "a_nomatch", ctl |-> "go"]
        ELSE IF HrefSeen(href, hseen) THEN same @@ [ev |-> "a_dup", ctl |-> "go"]
        ELSE IF ~IsAbsolute(href) \/ ~resp.ok
        THEN got @@ [ev |-> "a_detail_error", ctl |-> "go"]
        ELSE IF ~in_window(pub) THEN got @@ [ev |-> "a_drop", ctl |-> "go"]
        ELSE [got EXCEPT !.items = more]
             @@ [ev |-> "a_admit",
                 ctl |-> IF LimitReached(more, got.visited) THEN "break" ELSE "go"]

\* one turn of the anchor loop; an exception outside the per-link try leaves
\* fetch_html_window_items and is caught in main
HtmlAnchor ==
    /\ pc = "html" /\ left > 0
    /\ \E a \in Anchors :
       \E resp \in (IF Requested(feeds[fi], a) THEN Responses ELSE {NoResponse}) :
        LET r == AnchorStep(feeds[fi], a, resp)
        IN  /\ ev' = r.ev
            /\ IF r.ctl = "raise"
               THEN /\ candidates' = main_except(hitems)
                    /\ visited' = 0
                    /\ failed' = failed \cup {feeds[fi].name}
                    /\ pc' = "filter" /\ ci' = 1 /\ left' = 0
                    /\ hseen' = {} /\ hitems' = <<>>
               ELSE /\ hseen' = r.seen /\ hitems' = r.items
                    /\ visited' = r.visited
                    /\ left' = IF r.ctl = "break" THEN 0 ELSE left - 1
                    /\ UNCHANGED <<candidates, failed, pc, ci>>
    /\ UNCHANGED <<fi, out, items, seen, encounter>>
    /\ Fixed

\* return items
HtmlReturn ==
    /\ pc = "html" /\ left = 0
    /\ candidates' = hitems
    /\ pc' = "filter" /\ ci' = 1 /\ hseen' = {} /\ hitems' = <<>>
    /\ visited' = 0 /\ ev' = "html_return"
    /\ UNCHANGED <<fi, left, out, items, seen, failed, encounter>>
    /\ Fixed

\* a filter where an include match outweighs an exclude match
KeywordPassIncludeWins(text) ==
    \/ include # <<>> /\ AnySearch(include, text)
    \/ ~(exclude # <<>> /\ AnySearch(exclude, text))

\* the keyword filter of main: the two continue statements
KeywordPass(text) ==
    /\ ~(include # <<>> /\ ~AnySearch(include, text))
    /\ ~(exclude # <<>> /\ AnySearch(exclude, text))

\* the text the patterns are searched in
FilterText(it) == it.title \o <<" ">> \o it.summary

\* key = sha(it["link"] or it["title"])
ItemKey(it) == sha(IF it.link # <<>> THEN it.link ELSE it.title)

\* the merge without its seen set
IsDuplicateNever(key, keys) == FALSE

\* if key in seen: continue

IsDuplicate(key, keys) == key \in keys

\* it.update({"source": name, "tags": tags})
Tagged(it, f) == it @@ [source |-> f.name, tags |-> f.tags]

\* one turn of "for it in candidates"
FilterStep ==
    /\ pc = "filter" /\ ci <= Len(candidates)
    /\ LET it == candidates[ci]
           key == ItemKey(it)
       IN  IF ~KeywordPass(FilterText(it))
           THEN ev' = "kw_drop" /\ UNCHANGED <<items, seen, encounter>>
           ELSE IF IsDuplicate(key, seen)
           THEN ev' = "dup_drop" /\ UNCHANGED <<items, seen, encounter>>
           ELSE /\ seen' = seen \cup {key}
                /\ items' = Append(items, Tagged(it, feeds[fi]))
                /\ encounter' = Append(encounter, Tagged(it, feeds[fi]))
                /\ ev' = "append"
    /\ ci' = ci + 1
    /\ UNCHANGED <<pc, fi, left, out, hseen, hitems, candidates, visited, failed>>
    /\ Fixed

\* the candidates are used up: on to the next feed
NextFeed ==
    /\ pc = "filter" /\ ci > Len(candidates)
    /\ fi' = fi + 1 /\ pc' = "loop" /\ candidates' = <<>> /\ ci' = 1
    /\ ev' = "next"
    /\ UNCHANGED <<left, out, hseen, hitems, items, seen, visited, failed, encounter>>
    /\ Fixed

\* list.sort(key=lambda x: x["date"], reverse=True): stable, descending by
\* the date string; x goes after every element whose date is not less
RECURSIVE InsertDesc(_, _)
InsertDesc(x, sorted) ==
    IF sorted = <<>> THEN <<x>>
    ELSE IF StrLess(Head(sorted).date, x.date) THEN <<x>> \o sorted
    ELSE <<Head(sorted)>> \o InsertDesc(x, Tail(sorted))

RECURSIVE SortFrom(_, _)
SortFrom(todo, sorted) ==
    IF todo = <<>> THEN sorted
    ELSE SortFrom(Tail(todo), InsertDesc(Head(todo), sorted))

\* the sort with reverse left out
SortedAscending(its) == [i \in 1..Len(its) |-> SortFrom(its, <<>>)[Len(its) + 1 - i]]

\* items.sort(key=date, reverse=True)
Sorted(its) == SortFrom(its, <<>>)

\* items.sort(...), and the run is over
SortStep ==
    /\ pc = "loop" /\ fi > Len(feeds)
    /\ items' = Sorted(items)
    /\ pc' = "done" /\ ev' = "sort"
    /\ UNCHANGED <<fi, left, out, hseen, hitems, candidates, ci, seen, visited,
                   failed, encounter>>
    /\ Fixed

Next ==
    \/ RssGet
    \/ RssEntry
    \/ RssRaise
    \/ RssReturn
    \/ HtmlGet
    \/ HtmlAnchor
    \/ HtmlReturn
    \/ FilterStep
    \/ NextFeed
    \/ SortStep

Spec == Init /\ [][Next]_vars

\* ---------------------------------------------------------------- window probe
\* in_window applied to datetimes of any zone, under every LOCAL_TZ
ProbeInputs ==
    {None} \cup {Dt(t + o, o) : t \in (WinStartTick - 2)..(NowTick + 2), o \in TzOffsets}

InitProbe ==
    /\ LOCAL_TZ \in TzOffsets
    /\ WIN_START_LOCAL = window_bounds(LOCAL_TZ)[1]
    /\ WIN_END_LOCAL = window_bounds(LOCAL_TZ)[2]
    /\ SKIP_HTML = FALSE /\ EXTRACT_BODY = FALSE
    /\ feeds = <<>> /\ include = <<>> /\ exclude = <<>>
    /\ pc = "probe" /\ fi = 1 /\ left = 0 /\ out = <<>> /\ hseen = {}
    /\ hitems = <<>> /\ candidates = <<>> /\ ci = 1 /\ items = <<>> /\ seen = {}
    /\ visited = 0 /\ failed = {} /\ encounter = <<>> /\ ev = "start"
    /\ probe = None
    /\ verdict = "none"

ProbeWindow ==
    /\ pc = "probe" /\ verdict = "none"
    /\ verdict' = IF in_window(probe) THEN "in" ELSE "out"
    /\ UNCHANGED <<config, pc, fi, left, out, hseen, hitems, candidates, ci, items,
                   seen, visited, failed, encounter, ev, probe>>

ProbeAgain ==
    /\ pc = "probe" /\ verdict # "none"
    /\ probe' \in ProbeInputs
    /\ verdict' = "none"
    /\ UNCHANGED <<config, pc, fi, left, out, hseen, hitems, candidates, ci, items,
                   seen, visited, failed, encounter, ev>>

NextProbe == ProbeWindow \/ ProbeAgain

SpecWindow == InitProbe /\ [][NextProbe]_vars

\* ---------------------------------------------------------------- claims
\* the UTC instants of the window of the run
WindowInstants == Instant(WIN_START_LOCAL)..Instant(WIN_END_LOCAL)

DatedInWindow(it) == \E t \in WindowInstants : it.date = Iso(Dt(t, 0))

FeedOf(name) == CHOOSE k \in 1..Len(feeds) : feeds[k].name = name

FromListing(it) == feeds[FeedOf(it.source)].type # "rss"

\* C1: every item of the output, at every moment of the run, carries the
\* date of an instant inside the window, and the window is the one pair
\* computed from the clock when the module loaded; so no candidate without
\* a date (whose date field could only be that of no instant, or of the
\* moment of the request) is in the output
C1_OutputInWindow ==
    /\ <<WIN_START_LOCAL, WIN_END_LOCAL>> = window_bounds(LOCAL_TZ)
    /\ \A i \in 1..Len(items) : DatedInWindow(items[i])
    /\ \A i \in 1..Len(out) : DatedInWindow(out[i])
    /\ \A i \in 1..Len(hitems) : DatedInWindow(hitems[i])
    /\ \A i \in 1..Len(candidates) : DatedInWindow(candidates[i])

C1_Witness ==
    /\ pc = "done"
    /\ \E i, j \in 1..Len(items) : ~FromListing(items[i]) /\ FromListing(items[j])

\* C2: when the fetch of a source fails (request, parse, or an exception in
\* its fetcher), the run goes on, main gets an empty candidate list for it,
\* and no item of the output names it as its source
C2_FailedSourceIsolated ==
    /\ \A i \in 1..Len(items) : items[i].source \notin failed
    /\ (pc = "filter" /\ feeds[fi].name \in failed) => candidates = <<>>
    /\ ev \in {"rss_error", "rss_raise", "html_error", "a_href_error"} => ENABLED Next
    /\ pc = "done" => fi = Len(feeds) + 1

C2_Witness ==
    /\ pc = "done" /\ failed # {} /\ items # <<>>
    /\ \E k \in 1..Len(feeds) : feeds[k].name \notin failed

\* the identity key as the claims word it: the link, or the title when the
\* link is empty
KeyOf(it) == IF it.link # <<>> THEN it.link ELSE it.title

Keys(its) == {KeyOf(its[i]) : i \in 1..Len(its)}

\* C3: first occurrence wins: a candidate that passes the keyword filter and
\* whose key an item of the output already has leaves the output as it is;
\* an item once appended keeps its place and its fields while the feeds are
\* merged; and an item is appended under the name of the feed being merged
C3_FirstOccurrenceWins ==
    [][pc = "filter" /\ ci <= Len(candidates) =>
         /\ Len(items') >= Len(items) /\ SubSeq(items', 1, Len(items)) = items
         /\ (KeyOf(candidates[ci]) \in Keys(items) => items' = items)
         /\ (Len(items') > Len(items) =>
               /\ Len(items') = Len(items) + 1
               /\ items'[Len(items')].source = feeds[fi].name
               /\ KeyOf(items'[Len(items')]) = KeyOf(candidates[ci]))]_vars

C3_Witness ==
    /\ ev = "dup_drop" /\ fi = 2
    /\ \E i \in 1..Len(items) :
         /\ KeyOf(items[i]) = KeyOf(candidates[ci - 1])
         /\ items[i].source = feeds[1].name
         /\ items[i].date # candidates[ci - 1].date

\* C4: no two items of the output have the same key, at any moment of the
\* run, and no two items a listing fetch has admitted have the same link
C4_KeysUnique ==
    /\ \A i, j \in 1..Len(items) : i # j => KeyOf(items[i]) # KeyOf(items[j])
    /\ \A i, j \in 1..Len(hitems) : i # j => hitems[i].link # hitems[j].link

C4_Witness == ev = "a_dup" /\ hitems # <<>> /\ items # <<>>

\* C5: a candidate gets past the keyword filter exactly when the include
\* list is empty or one of its patterns matches title + " " + summary, and
\* no exclude pattern matches that text
ClaimedPass(it) ==
    LET text == it.title \o <<" ">> \o it.summary
    IN  /\ include = <<>> \/ \E k \in 1..Len(include) : Search(include[k], text)
        /\ ~\E k \in 1..Len(exclude) : Search(exclude[k], text)

C5_KeywordFilter ==
    [][pc = "filter" /\ ci <= Len(candidates) =>
         /\ ~ClaimedPass(candidates[ci]) => ev' = "kw_drop" /\ items' = items
         /\ ClaimedPass(candidates[ci]) => ev' \in {"dup_drop", "append"}
         /\ ev' = "append" <=> Len(items') = Len(items) + 1]_vars

C5_Witness ==
    /\ ev = "kw_drop" /\ include # <<>>
    /\ AnySearch(include, FilterText(candidates[ci - 1]))
    /\ AnySearch(exclude, FilterText(candidates[ci - 1]))

\* the instant a date string of the output stands for
InstantOfDate(s) ==
    CHOOSE t \in (Instant(WIN_START_LOCAL) - 2 * TicksPerSec)..(Instant(WIN_END_LOCAL) + 2 * TicksPerSec) :
        Iso(Dt(t, 0)) = s

Position(its, it) == CHOOSE k \in 1..Len(its) : its[k] = it

\* C6: the final output holds the appended items, latest instant first, and
\* items of the same instant in the order they were appended
C6_SortedStable ==
    pc = "done" =>
        /\ Len(items) = Len(encounter)
        /\ \A k \in 1..Len(encounter) : \E i \in 1..Len(items) : items[i] = encounter[k]
        /\ \A i, j \in 1..Len(items) : i < j =>
             /\ InstantOfDate(items[i].date) >= InstantOfDate(items[j].date)
             /\ items[i].date = items[j].date =>
                  Position(encounter, items[i]) < Position(encounter, items[j])

C6_Witness ==
    /\ pc = "done" /\ items # encounter
    /\ \E i, j \in 1..Len(items) :
         i < j /\ items[i].date = items[j].date /\ items[i].source # items[j].source
    /\ \E i, j \in 1..Len(items) :
         /\ InstantOfDate(items[i].date) \div TicksPerSec = InstantOfDate(items[j].date) \div TicksPerSec
         /\ items[i].date # items[j].date

\* C7: in_window says yes exactly for a known datetime whose instant is in
\* the closed interval from the start to the end of the window
C7_InWindowClosed ==
    verdict # "none" =>
        (verdict = "in" <=>
            /\ probe.known
            /\ Instant(WIN_START_LOCAL) <= Instant(probe)
            /\ Instant(probe) <= Instant(WIN_END_LOCAL))

C7_Witness ==
    /\ verdict = "in" /\ probe.off # LOCAL_TZ
    /\ Instant(probe) = Instant(WIN_END_LOCAL)

\* C8 as claimed: every item of the output has an absolute URL as its link
C8_AllLinksAbsolute == \A i \in 1..Len(items) : IsAbsolute(items[i].link)

\* C8 as amended: every item of the output that a listing fetch produced has
\* an absolute URL as its link
C8_ListingLinksAbsolute ==
    \A i \in 1..Len(items) : FromListing(items[i]) => IsAbsolute(items[i].link)

C8_Witness ==
    /\ pc = "done"
    /\ \E i, j \in 1..Len(items) :
         /\ FromListing(items[i]) /\ items[i].title = <<"R">>
         /\ ~FromListing(items[j]) /\ ~IsAbsolute(items[j].link)

\* C9 as claimed: one listing fetch requests at most limit article pages
C9_VisitsWithinLimit == visited <= Limit

\* C10 as claimed: a failure on one link of a listing (the request, or any
\* exception while the link is processed) skips that link alone: the fetcher
\* goes on to the next anchor with the items it has
C10_LinkFailureSkipsLink ==
    [][ev' \in {"a_detail_error", "a_href_error"} =>
         pc' = "html" /\ hitems' = hitems /\ left' = left - 1]_vars

====
